---- MODULE Spec2Model ----
(***************************************************************************)
(* A model of ArtificialAMF: the generate-measure-adapt loop of            *)
(* draw_routine.generate_image, the porosity measurement rules of          *)
(* porosity.py, border_correction, generate_objects and save_files of      *)
(* utils.py, Parameters.adapt_parameters and Parameters.load_from_file of  *)
(* parameters.py, and UserConfig of user_config.py.                        *)
(*                                                                         *)
(* Units.  Porosities, margins and thresholds are Python floats in percent *)
(* points; here they are integers counting 1/100 of a percent point        *)
(* (30.0 is 3000, 31.01 is 3101).  track_mean_height moves in steps of 0.5 *)
(* pixel and is an integer counting half pixels (40 is 80).  Arrays are    *)
(* 1-based sequences; Python's index i is i + 1 here.                      *)
(***************************************************************************)
EXTENDS Integers, Sequences, FiniteSets, TLC

VARIABLES
    pc,                 \* generate_image: position of the call
    parameters,         \* the Parameters object (mutated in place)
    user_config,        \* the frozen UserConfig
    save,               \* generate_image's save argument
    actual_porosities,  \* the Porosities object of the running call
    foam_pore_objects,  \* the foam pores generated in this iteration
    fig,                \* what the pyplot figure renders to at the moment
    img_grey_sp,        \* the corrected buffer of the last full rendering
    saved,              \* what save_files was handed, one entry per call of it
    result,             \* what generate_image returned
    iteration,          \* number of loop iterations begun in this call
    fn_args,            \* arguments of the pure function under check
    fn_rets             \* its results so far, one per application

vars == <<pc, parameters, user_config, save, actual_porosities,
          foam_pore_objects, fig, img_grey_sp, saved, result, iteration,
          fn_args, fn_rets>>

loopVars == <<pc, parameters, user_config, save, actual_porosities,
              foam_pore_objects, fig, img_grey_sp, saved, result, iteration>>

fnVars == <<fn_args, fn_rets>>

----------------------------------------------------------------------------
(* Bounds of the model *)

\* longest flat buffer handed to a porosity rule
MaxLen == 4
\* most rows / columns of a two-dimensional buffer handed to border_correction
MaxRows == 3
MaxCols == 4
\* pixels of the canvas rendered in generate_image (one row)
LoopPix == 4
\* loop iterations of generate_image followed in one call
MaxIter == 2

----------------------------------------------------------------------------
(* Numbers *)

\* x percent points in hundredths of a percent point
Pct(x) == x * 100

Abs(x) == IF x < 0 THEN -x ELSE x

\* np.round on the rational n / d (d > 0): to the nearest integer, a tie to the
\* even one
RoundHalfEven(n, d) ==
    LET q == n \div d
        r == n % d
    IN  IF 2 * r < d THEN q
        ELSE IF 2 * r > d THEN q + 1
        ELSE IF q % 2 = 0 THEN q ELSE q + 1

RECURSIVE SeqSum(_)
SeqSum(s) == IF s = <<>> THEN 0 ELSE Head(s) + SeqSum(Tail(s))

\* Grey values: 0 is the black border matplotlib leaves around the image,
\* 77 the grey of DARK_ELLIPSE_COLOR (0.3, 0.3, 0.3), 211 that of 'lightgrey'.
Sentinel == 0
DarkGrey == 77
LightGrey == 211

\* the grey values buffers are drawn from: black, the two colours, white
GreyLevels == {Sentinel, DarkGrey, LightGrey, 255}

----------------------------------------------------------------------------
(* porosity.py *)

\* 100 / all_pixel * pixel_below_threshold, in hundredths of a percent point
calculate_porostiy(pixel_below_threshold, flat_grayscale_image) ==
    (Pct(100) * pixel_below_threshold) \div Len(flat_grayscale_image)

\* The mutation of the comparison with the threshold: <= for <.
calculate_porosity_w_threshold_inclusive(flat_grayscale_image, threshold) ==
    LET below == {i \in 1..Len(flat_grayscale_image) :
                    flat_grayscale_image[i] * threshold.den <= threshold.num}
    IN  calculate_porostiy(Cardinality(below), flat_grayscale_image)

\* The threshold is the rational threshold.num / threshold.den (den > 0).
\* np.where(flat < threshold)[0].size: the number of pixels below it.
calculate_porosity_w_threshold(flat_grayscale_image, threshold) ==
    LET below == {i \in 1..Len(flat_grayscale_image) :
                    flat_grayscale_image[i] * threshold.den < threshold.num}
    IN  calculate_porostiy(Cardinality(below), flat_grayscale_image)

\* np.mean: the sum over the number of pixels
NpMean(flat) == [num |-> SeqSum(flat), den |-> Len(flat)]

calculate_porosity_w_mean(flat_grayscale_image) ==
    calculate_porosity_w_threshold(flat_grayscale_image,
                                   NpMean(flat_grayscale_image))

RECURSIVE Insert(_, _)
Insert(x, s) ==
    IF s = <<>> THEN <<x>>
    ELSE IF x <= Head(s) THEN <<x>> \o s
    ELSE <<Head(s)>> \o Insert(x, Tail(s))

RECURSIVE Sorted(_)
Sorted(s) == IF s = <<>> THEN <<>> ELSE Insert(Head(s), Sorted(Tail(s)))

\* np.median: the middle value of the sorted pixels, the mean of the two
\* middle values when their number is even
NpMedian(flat) ==
    LET s == Sorted(flat)
        n == Len(flat)
    IN  IF n % 2 = 1 THEN [num |-> 2 * s[(n + 1) \div 2], den |-> 2]
        ELSE [num |-> s[n \div 2] + s[n \div 2 + 1], den |-> 2]

calculate_porosity_w_median_plus_1(flat_grayscale_image) ==
    LET median == NpMedian(flat_grayscale_image)
    IN  calculate_porosity_w_threshold(
            flat_grayscale_image,
            [num |-> median.num + median.den, den |-> median.den])

\* A function object, told from the string of its name
Function(name) == [__name__ |-> name]

\* A str held where a function can be held: the two are different objects
Str(s) == [str |-> s]

\* The two measurement rules Parameters.porosity_function can hold
MeanRule == Function("calculate_porosity_w_mean")
MedianRule == Function("calculate_porosity_w_median_plus_1")
Rules == {MeanRule, MedianRule}

\* parameters.porosity_function(flat, False)
ApplyRule(rule, flat) ==
    IF rule = MeanRule THEN calculate_porosity_w_mean(flat)
    ELSE calculate_porosity_w_median_plus_1(flat)

\* The mutation of the bounds of the margin: both exclusive.
porosity_in_margin_exclusive(desired_porosity, actual_porosity, margin) ==
    /\ desired_porosity + margin > actual_porosity
    /\ actual_porosity > desired_porosity - margin

\* desired + margin >= actual >= desired - margin
porosity_in_margin(desired_porosity, actual_porosity, porosity_margin) ==
    /\ desired_porosity + porosity_margin >= actual_porosity
    /\ actual_porosity >= desired_porosity - porosity_margin

----------------------------------------------------------------------------
(* utils.py: border_correction *)

\* A two-dimensional buffer is a sequence of rows, img[xi + 1][yi + 1] being
\* Python's img_grey[xi][yi]; img_grey.shape[0] is the number of rows.
Shape0(img) == Len(img)
Shape1(img) == Len(img[1])

\* numpy's indexing: a negative index counts from the end
NpIndex(i, n) == IF i < 0 THEN i + n ELSE i

\* img_grey[xi][yi] (0-based)
At(img, xi, yi) ==
    img[NpIndex(xi, Shape0(img)) + 1][NpIndex(yi, Shape1(img)) + 1]

\* The body of the two loops at pixel (xi, yi): a pixel equal to 0 takes the
\* value its lower right neighbour has now, the neighbour being the upper or
\* left one in the last row or column.
CorrectPixel(img, xi, yi) ==
    LET width == Shape0(img)
        height == Shape1(img)
        x_new == IF xi = width - 1 THEN width - 2 ELSE xi + 1
        y_new == IF yi = height - 1 THEN height - 2 ELSE yi + 1
    IN  IF At(img, xi, yi) = Sentinel
        THEN [img EXCEPT ![xi + 1][yi + 1] = At(img, x_new, y_new)]
        ELSE img

\* The loops from the k-th pixel on, in the order of the code: xi outer, yi
\* inner, each pixel reading the buffer as the earlier pixels left it.
RECURSIVE CorrectFrom(_, _)
CorrectFrom(img, k) ==
    IF k >= Shape0(img) * Shape1(img) THEN img
    ELSE CorrectFrom(CorrectPixel(img, k \div Shape1(img), k % Shape1(img)),
                     k + 1)

border_correction(img_grey) == CorrectFrom(img_grey, 0)

\* img.flatten(): the rows one after the other
RECURSIVE Flatten(_)
Flatten(img) == IF img = <<>> THEN <<>> ELSE Head(img) \o Flatten(Tail(img))

----------------------------------------------------------------------------
(* porosity.py: Porosities; parameters.py: Parameters *)

\* by_tracks of a Porosities built without it
None == "None"

\* Porosities(total, by_foam_pores): by_tracks defaults to None
Porosities(total, by_foam_pores) ==
    [total |-> total, by_foam_pores |-> by_foam_pores, by_tracks |-> None]

\* The defaults of the dataclass.  track_mean_height counts half pixels;
\* foam_pores_center_scaling_factor is the rational track_mean_width / 3.0.
DefaultImageWidth == 1360
DefaultImageHeight == 1024
DefaultTrackMeanWidth == 50
DefaultTrackMeanHeight == 40
DefaultMeanDiameter == 5
DefaultMeanFoamPores == 8
DefaultVariationOfFoamPores == 4

Parameters ==
    [image_width |-> DefaultImageWidth,
     image_height |-> DefaultImageHeight,
     total_porosity_margin |-> Pct(1),
     porosity_foam_pore_margin |-> Pct(2),
     foam_pore_amount_adaption_threshold |-> Pct(3),
     porosity_function |-> MeanRule,
     track_mean_width |-> DefaultTrackMeanWidth,
     track_mean_height |-> 2 * DefaultTrackMeanHeight,
     foam_pores_center_scaling_factor |->
         [num |-> DefaultTrackMeanWidth, den |-> 3],
     mean_diameter_of_foam_pores |-> DefaultMeanDiameter,
     mean_foam_pores_per_track |-> DefaultMeanFoamPores,
     variation_of_foam_pores_per_track |-> DefaultVariationOfFoamPores]

\* The gaps of the track adaptation: 7 and 10 percent points
LargeStepGapInMargin == 7
LargeStepGapOutOfMargin == 10
\* mean_foam_pores_per_track < 10 in the choice between size and amount
AmountCeiling == 10

\* track_mean_width += dw, track_mean_height += dh (dh in half pixels)
MoveTrack(self, dw, dh) ==
    [self EXCEPT !.track_mean_width = @ + dw, !.track_mean_height = @ + dh]

\* One of the two equal branches of the track adaptation: the large step
\* (3 and 2) when the gap in total porosity exceeds large_gap points, else the
\* small one (1 and 0.5); larger tracks when the total is above the desired.
TrackBranch(self, desired_porosities, actual_porosities_, large_gap) ==
    IF Abs(actual_porosities_.total - desired_porosities.total) > Pct(large_gap)
    THEN IF actual_porosities_.total > desired_porosities.total
         THEN MoveTrack(self, 3, 4)
         ELSE MoveTrack(self, -3, -4)
    ELSE IF actual_porosities_.total > desired_porosities.total
         THEN MoveTrack(self, 1, 1)
         ELSE MoveTrack(self, -1, -1)

\* The mutation of the sign of the track steps.
AdaptTrackShrinking(self, desired_porosities, actual_porosities_) ==
    IF actual_porosities_.total > desired_porosities.total
    THEN MoveTrack(self, -3, -4)
    ELSE MoveTrack(self, 3, 4)

\* Line 222, the test of the branch commented 'Foam pore porosity is in
\* margin': desired - margin < actual < desired + margin
FoamPorePorosityInMarginBranch(self, desired_porosities, actual_porosities_) ==
    /\ desired_porosities.by_foam_pores - self.porosity_foam_pore_margin
            < actual_porosities_.by_foam_pores
    /\ actual_porosities_.by_foam_pores
            < desired_porosities.by_foam_pores + self.porosity_foam_pore_margin

\* Lines 222-250: the first if / else of adapt_parameters
AdaptTrack(self, desired_porosities, actual_porosities_) ==
    IF FoamPorePorosityInMarginBranch(self, desired_porosities,
                                      actual_porosities_)
    THEN TrackBranch(self, desired_porosities, actual_porosities_,
                     LargeStepGapInMargin)
    ELSE TrackBranch(self, desired_porosities, actual_porosities_,
                     LargeStepGapOutOfMargin)

\* The mutation of the choice between size and amount: the number of pores
\* per track is not looked at.
AdaptFoamWithoutCeiling(self, desired_porosities, actual_porosities_) ==
    LET difference_in_foam_porosity ==
            actual_porosities_.by_foam_pores - desired_porosities.by_foam_pores
    IN  IF Abs(difference_in_foam_porosity) > self.porosity_foam_pore_margin
        THEN IF difference_in_foam_porosity > 0
             THEN IF difference_in_foam_porosity
                        < self.foam_pore_amount_adaption_threshold
                  THEN [self EXCEPT !.mean_diameter_of_foam_pores =
                            IF @ - 1 <= 0 THEN 1 ELSE @ - 1]
                  ELSE IF self.mean_foam_pores_per_track - 1 <= 0
                       THEN [self EXCEPT
                               !.mean_foam_pores_per_track = 1,
                               !.variation_of_foam_pores_per_track =
                                   IF @ - 1 < 0 THEN 0 ELSE @ - 1]
                       ELSE [self EXCEPT !.mean_foam_pores_per_track = @ - 1]
             ELSE IF Abs(difference_in_foam_porosity)
                        < self.foam_pore_amount_adaption_threshold
                  THEN [self EXCEPT !.mean_diameter_of_foam_pores = @ + 1]
                  ELSE [self EXCEPT !.mean_foam_pores_per_track = @ + 1]
        ELSE self

\* The mutation of the floors: the diameter and the number of pores go down
\* by 1 whatever they are, and the variation with the number once it is 1.
AdaptFoamUnfloored(self, desired_porosities, actual_porosities_) ==
    LET difference_in_foam_porosity ==
            actual_porosities_.by_foam_pores - desired_porosities.by_foam_pores
    IN  IF Abs(difference_in_foam_porosity) > self.porosity_foam_pore_margin
        THEN IF difference_in_foam_porosity > 0
             THEN IF /\ difference_in_foam_porosity
                          < self.foam_pore_amount_adaption_threshold
                     /\ self.mean_foam_pores_per_track < AmountCeiling
                  THEN [self EXCEPT !.mean_diameter_of_foam_pores = @ - 1]
                  ELSE IF self.mean_foam_pores_per_track - 1 <= 0
                       THEN [self EXCEPT
                               !.mean_foam_pores_per_track = @ - 1,
                               !.variation_of_foam_pores_per_track = @ - 1]
                       ELSE [self EXCEPT !.mean_foam_pores_per_track = @ - 1]
             ELSE IF Abs(difference_in_foam_porosity)
                        < self.foam_pore_amount_adaption_threshold
                  THEN [self EXCEPT !.mean_diameter_of_foam_pores = @ + 1]
                  ELSE [self EXCEPT !.mean_foam_pores_per_track = @ + 1]
        ELSE self

\* Lines 252-279: the adaptation of the foam pores
AdaptFoam(self, desired_porosities, actual_porosities_) ==
    LET difference_in_foam_porosity ==
            actual_porosities_.by_foam_pores - desired_porosities.by_foam_pores
    IN  IF Abs(difference_in_foam_porosity) > self.porosity_foam_pore_margin
        THEN IF difference_in_foam_porosity > 0
             THEN IF /\ difference_in_foam_porosity
                          < self.foam_pore_amount_adaption_threshold
                     /\ self.mean_foam_pores_per_track < AmountCeiling
                  THEN [self EXCEPT !.mean_diameter_of_foam_pores =
                            IF @ - 1 <= 0 THEN 1 ELSE @ - 1]
                  ELSE IF self.mean_foam_pores_per_track - 1 <= 0
                       THEN [self EXCEPT
                               !.mean_foam_pores_per_track = 1,
                               !.variation_of_foam_pores_per_track =
                                   IF @ - 1 < 0 THEN 0 ELSE @ - 1]
                       ELSE [self EXCEPT !.mean_foam_pores_per_track = @ - 1]
             ELSE IF Abs(difference_in_foam_porosity)
                        < self.foam_pore_amount_adaption_threshold
                  THEN [self EXCEPT !.mean_diameter_of_foam_pores = @ + 1]
                  ELSE [self EXCEPT !.mean_foam_pores_per_track = @ + 1]
        ELSE self

\* The mutation of lines 280-281: the number of pores is left as adapted.
AdaptFinishKeepingPores(self, desired_porosities) ==
    [self EXCEPT !.foam_pores_center_scaling_factor =
        [num |-> RoundHalfEven(self.track_mean_width, 3), den |-> 1]]

\* Lines 280-283: no pores for a desired foam porosity of 0, and the centre
\* scaling int(np.round(track_mean_width / 3.0))
AdaptFinish(self, desired_porosities) ==
    LET zeroed == IF desired_porosities.by_foam_pores = 0
                  THEN [self EXCEPT !.mean_foam_pores_per_track = 0]
                  ELSE self
    IN  [zeroed EXCEPT !.foam_pores_center_scaling_factor =
            [num |-> RoundHalfEven(zeroed.track_mean_width, 3), den |-> 1]]

\* The mutation of the place of line 283: the centre scaling is derived from
\* the track_mean_width the call was entered with.
adapt_parameters_scaling_first(self, desired_porosities, actual_porosities_) ==
    LET adapted ==
            AdaptFinish(
                AdaptFoam(AdaptTrack(self, desired_porosities,
                                     actual_porosities_),
                          desired_porosities, actual_porosities_),
                desired_porosities)
    IN  [adapted EXCEPT !.foam_pores_center_scaling_factor =
            [num |-> RoundHalfEven(self.track_mean_width, 3), den |-> 1]]

\* Parameters.adapt_parameters: the parameters after the call
adapt_parameters(self, desired_porosities, actual_porosities_) ==
    AdaptFinish(
        AdaptFoam(AdaptTrack(self, desired_porosities, actual_porosities_),
                  desired_porosities, actual_porosities_),
        desired_porosities)

----------------------------------------------------------------------------
(* user_config.py: UserConfig; utils.py: generate_objects *)

\* UserConfig(layer_height, layer_width_to_layer_height_ratio,
\* desired_porosities, output_folder); the ratio is the rational num / den.
UserConfig(layer_height, ratio, desired_porosities, output_folder) ==
    [layer_height |-> layer_height,
     layer_width_to_layer_height_ratio |-> ratio,
     desired_porosities |-> desired_porosities,
     output_folder |-> output_folder]

\* track_width_variation 0.2 and track_height_variation 0.08, in percent
TrackWidthVariation == 20
TrackHeightVariation == 8

FloorDiv(n, d) == n \div d
CeilDiv(n, d) == -((-n) \div d)

\* range(0, stop, step) for step > 0
RECURSIVE RangeFrom(_, _, _)
RangeFrom(start, stop, step) ==
    IF start >= stop THEN <<>>
    ELSE <<start>> \o RangeFrom(start + step, stop, step)

\* The grid points in the order of the two loops: x outer, y inner
RECURSIVE GridFrom(_, _)
GridFrom(xs, ys) ==
    IF xs = <<>> THEN <<>>
    ELSE [i \in 1..Len(ys) |-> <<Head(xs), ys[i]>>] \o GridFrom(Tail(xs), ys)

\* What the call ended with
Returned == "returned"
LayerWidthError == "ValueError: Layer width must not be zero or smaller"
LayerHeightError == "ValueError: Layer height must not be zero or smaller"
RandintError == "ValueError: low >= high"

Outcome(ended, tracks, pores) ==
    [ended |-> ended, track_objects |-> tracks, foam_pore_objects |-> pores]

\* A BezierEllipse at a grid point.  Its jitter, its size and its outline are
\* random reals drawn at construction; no state of the program depends on
\* them, and they are not part of the record.
BezierEllipse(point, color) == [x |-> point[1], y |-> point[2], color |-> color]

\* np.random.randint(low, high) has a value iff low < high.
\* low = floor(mean - mean * variation), high = ceil(mean + mean * variation)
\* for a mean of mean_n / mean_d and a variation of percent / 100.
TrackRangeValid(mean_n, mean_d, percent) ==
    FloorDiv(mean_n * (100 - percent), mean_d * 100)
        < CeilDiv(mean_n * (100 + percent), mean_d * 100)

\* The numbers of foam pores np.random.randint(mean - variation,
\* mean + variation) can draw for one track
PoreCounts(parameters_) ==
    (parameters_.mean_foam_pores_per_track
        - parameters_.variation_of_foam_pores_per_track)
    .. (parameters_.mean_foam_pores_per_track
        + parameters_.variation_of_foam_pores_per_track - 1)

\* range(0, n) appended to the pores: n pores at the point, none for n <= 0
RECURSIVE PoresAt(_, _)
PoresAt(point, n) ==
    IF n <= 0 THEN <<>>
    ELSE <<BezierEllipse(point, "dark")>> \o PoresAt(point, n - 1)

\* The mutation of the test on the desired foam porosity: pores are generated
\* whatever is desired.
WantsFoamPoresAlways(user_config_) == TRUE

\* not user_config.desired_porosities.by_foam_pores == 0
WantsFoamPores(user_config_) ==
    ~(user_config_.desired_porosities.by_foam_pores = 0)

\* The body of the two loops from the k-th grid point on, given the lists
\* track_objects and foam_pore_objects so far: every way the call can end.
RECURSIVE GenerateFrom(_, _, _, _, _, _)
GenerateFrom(parameters_, user_config_, grid, k, tracks, pores) ==
    IF k > Len(grid) THEN {Outcome(Returned, tracks, pores)}
    ELSE IF \/ ~TrackRangeValid(parameters_.track_mean_width, 1,
                                TrackWidthVariation)
            \/ ~TrackRangeValid(parameters_.track_mean_height, 2,
                                TrackHeightVariation)
         THEN {Outcome(RandintError, tracks, pores)}
    ELSE LET with_track == Append(tracks, BezierEllipse(grid[k], "lightgrey"))
         IN  IF ~WantsFoamPores(user_config_)
             THEN GenerateFrom(parameters_, user_config_, grid, k + 1,
                               with_track, pores)
             ELSE IF PoreCounts(parameters_) = {}
             THEN {Outcome(RandintError, with_track, pores)}
             ELSE UNION {GenerateFrom(parameters_, user_config_, grid, k + 1,
                                      with_track,
                                      pores \o PoresAt(grid[k], n))
                         : n \in PoreCounts(parameters_)}

\* The mutation of the second validation: a layer height that is not positive
\* is not reported, and range() with a negative step yields an empty grid.
generate_objects_height_unchecked(parameters_, user_config_) ==
    LET layer_width ==
            RoundHalfEven(user_config_.layer_height
                            * user_config_.layer_width_to_layer_height_ratio.num,
                          user_config_.layer_width_to_layer_height_ratio.den)
    IN  IF ~(layer_width > 0) THEN {Outcome(LayerWidthError, <<>>, <<>>)}
        ELSE IF ~(user_config_.layer_height > 0)
        THEN {Outcome(Returned, <<>>, <<>>)}
        ELSE GenerateFrom(parameters_, user_config_,
                          GridFrom(RangeFrom(0, parameters_.image_width,
                                             layer_width),
                                   RangeFrom(0, parameters_.image_height,
                                             user_config_.layer_height)),
                          1, <<>>, <<>>)

\* generate_objects(parameters, user_config): every way the call can end
generate_objects(parameters_, user_config_) ==
    LET layer_width ==
            RoundHalfEven(user_config_.layer_height
                            * user_config_.layer_width_to_layer_height_ratio.num,
                          user_config_.layer_width_to_layer_height_ratio.den)
    IN  IF ~(layer_width > 0) THEN {Outcome(LayerWidthError, <<>>, <<>>)}
        ELSE IF ~(user_config_.layer_height > 0)
        THEN {Outcome(LayerHeightError, <<>>, <<>>)}
        ELSE GenerateFrom(parameters_, user_config_,
                          GridFrom(RangeFrom(0, parameters_.image_width,
                                             layer_width),
                                   RangeFrom(0, parameters_.image_height,
                                             user_config_.layer_height)),
                          1, <<>>, <<>>)

\* The mutation of a silent repair: a call that ends in randint's error
\* leaves a variation of 1 in the Parameters it was given.
ArgumentsAfterGenerateRepaired(parameters_, user_config_, outcome) ==
    [parameters |->
        IF outcome.ended = RandintError
        THEN [parameters_ EXCEPT !.variation_of_foam_pores_per_track = 1]
        ELSE parameters_,
     user_config |-> user_config_]

\* The two objects handed to generate_objects as the call leaves them.  The
\* function reads their fields (lines 105-147) and assigns to none of them;
\* track_objects and foam_pore_objects are lists of its own.
ArgumentsAfterGenerate(parameters_, user_config_, outcome) ==
    [parameters |-> parameters_, user_config |-> user_config_]

----------------------------------------------------------------------------
(* The functions taken alone: their arguments are drawn first, and every     *)
(* application appends its result to fn_rets.                                *)

NoConfig == UserConfig(0, [num |-> 0, den |-> 1], Porosities(0, 0), "")

\* generate_image is not running
LoopIdle ==
    /\ pc = "idle"
    /\ parameters = Parameters
    /\ user_config = NoConfig
    /\ save = FALSE
    /\ actual_porosities = Porosities(0, 0)
    /\ foam_pore_objects = <<>>
    /\ fig = <<>>
    /\ img_grey_sp = <<>>
    /\ saved = <<>>
    /\ result = None
    /\ iteration = 0

FnIdle ==
    /\ fn_args = [fn |-> "none"]
    /\ fn_rets = <<>>

(* porosity_in_margin *)

MarginDesired == {Pct(0), Pct(30), Pct(50)}
MarginValues == {Pct(1), Pct(2), Pct(3)}
\* the distance of the measured porosity from the desired one, in hundredths
MarginOffsets ==
    {-301, -300, -299, -201, -200, -101, -100, -99, -1, 0,
     1, 99, 100, 101, 200, 201, 299, 300, 301}

InitMargin ==
    /\ LoopIdle
    /\ \E d \in MarginDesired, m \in MarginValues, o \in MarginOffsets :
          fn_args = [fn |-> "porosity_in_margin", desired_porosity |-> d,
                     actual_porosity |-> d + o, porosity_margin |-> m]
    /\ fn_rets = <<>>

CallPorosityInMargin ==
    /\ fn_args.fn = "porosity_in_margin"
    /\ fn_rets = <<>>
    /\ fn_rets' = <<porosity_in_margin(fn_args.desired_porosity,
                                       fn_args.actual_porosity,
                                       fn_args.porosity_margin)>>
    /\ UNCHANGED <<fn_args, loopVars>>

SpecMargin == InitMargin /\ [][CallPorosityInMargin]_vars

(* calculate_porosity_w_mean and calculate_porosity_w_median_plus_1 *)

FlatBuffers == UNION {[1..n -> GreyLevels] : n \in 1..MaxLen}

InitMeter ==
    /\ LoopIdle
    /\ \E r \in Rules, flat \in FlatBuffers :
          fn_args = [fn |-> "porosity_function", rule |-> r,
                     flat_grayscale_image |-> flat]
    /\ fn_rets = <<>>

CallPorosityFunction ==
    /\ fn_args.fn = "porosity_function"
    /\ fn_rets = <<>>
    /\ fn_rets' = <<ApplyRule(fn_args.rule, fn_args.flat_grayscale_image)>>
    /\ UNCHANGED <<fn_args, loopVars>>

SpecMeter == InitMeter /\ [][CallPorosityFunction]_vars

(* border_correction *)

BorderLevels == {Sentinel, DarkGrey, LightGrey}

\* every buffer of up to MaxRows x MaxRows pixels
SmallImages ==
    UNION {[1..r -> [1..c -> BorderLevels]] : r \in 1..MaxRows, c \in 1..MaxRows}

OnFrame(r, c, i, j) == i = 1 \/ i = r \/ j = 1 \/ j = c

\* The buffers of r x c pixels that are 0 exactly on the one pixel wide frame
FramedImages(r, c) ==
    {img \in [1..r -> [1..c -> BorderLevels]] :
        \A i \in 1..r, j \in 1..c :
            (img[i][j] = Sentinel) <=> OnFrame(r, c, i, j)}

IsFramed(img) == img \in FramedImages(Shape0(img), Shape1(img))

Images ==
    SmallImages \cup UNION {FramedImages(r, c) : r \in 3..MaxRows, c \in 3..MaxCols}

InitBorder ==
    /\ LoopIdle
    /\ \E img \in Images : fn_args = [fn |-> "border_correction", img_grey |-> img]
    /\ fn_rets = <<>>

\* border_correction applied to the buffer, then to its own result
CallBorderCorrection ==
    /\ fn_args.fn = "border_correction"
    /\ Len(fn_rets) < 2
    /\ fn_rets' = Append(fn_rets,
                         border_correction(IF fn_rets = <<>>
                                           THEN fn_args.img_grey
                                           ELSE fn_rets[Len(fn_rets)]))
    /\ UNCHANGED <<fn_args, loopVars>>

SpecBorder == InitBorder /\ [][CallBorderCorrection]_vars

----------------------------------------------------------------------------
(* Claims about the functions taken alone *)

\* C6: porosity_in_margin(desired, actual, margin) is true exactly when the
\* measured porosity is at most margin away from the desired one, both ends
\* included: a measured porosity of desired + margin or desired - margin is
\* in the margin, and anything further away is not.
C6_MarginInclusive ==
    (fn_args.fn = "porosity_in_margin" /\ fn_rets # <<>>) =>
        LET distance == Abs(fn_args.actual_porosity - fn_args.desired_porosity)
        IN  /\ fn_rets[1] = (distance <= fn_args.porosity_margin)
            /\ distance = fn_args.porosity_margin => fn_rets[1] = TRUE
            /\ distance > fn_args.porosity_margin => fn_rets[1] = FALSE

\* porosity_in_margin(30, 31, 1.0) was applied and gave true
C6_Witness ==
    /\ fn_args.fn = "porosity_in_margin"
    /\ fn_args.desired_porosity = Pct(30)
    /\ fn_args.actual_porosity = Pct(31)
    /\ fn_args.porosity_margin = Pct(1)
    /\ fn_rets = <<TRUE>>

Uniform(flat, v) == \A i \in 1..Len(flat) : flat[i] = v

\* C7 as amended: on a buffer whose pixels are all white, and on one whose
\* pixels are all black, the mean rule measures a porosity of 0 (no pixel is
\* below the mean) and the median plus one rule measures a porosity of 100
\* (every pixel is below the median plus one).
C7_UniformBuffers ==
    (fn_args.fn = "porosity_function" /\ fn_rets # <<>>) =>
        ((Uniform(fn_args.flat_grayscale_image, 255)
              \/ Uniform(fn_args.flat_grayscale_image, 0)) =>
            fn_rets[1] = IF fn_args.rule = MeanRule THEN 0 ELSE Pct(100))

\* C7 as claimed: for both rules an all white buffer measures 0 and an all
\* black buffer measures 100.
C7_WhiteZeroBlackHundred ==
    (fn_args.fn = "porosity_function" /\ fn_rets # <<>>) =>
        /\ Uniform(fn_args.flat_grayscale_image, 255) => fn_rets[1] = 0
        /\ Uniform(fn_args.flat_grayscale_image, 0) => fn_rets[1] = Pct(100)

\* the mean rule was applied to an all black buffer of several pixels
C7_Witness ==
    /\ fn_args.fn = "porosity_function"
    /\ fn_args.rule = MeanRule
    /\ Len(fn_args.flat_grayscale_image) >= 2
    /\ Uniform(fn_args.flat_grayscale_image, 0)
    /\ fn_rets = <<0>>

\* C8: border_correction is idempotent: applied to its own result it gives
\* that result again.
C8_Idempotent ==
    (fn_args.fn = "border_correction" /\ Len(fn_rets) = 2) =>
        fn_rets[2] = fn_rets[1]

NoSentinel(img) ==
    \A i \in 1..Shape0(img), j \in 1..Shape1(img) : img[i][j] # Sentinel

\* a canvas with an interior, 0 exactly on its one pixel wide frame
FramedCanvas(img) == Shape0(img) >= 3 /\ Shape1(img) >= 3 /\ IsFramed(img)

\* C9: one pass of border_correction over a buffer that is 0 exactly on its
\* one pixel wide frame leaves no pixel equal to 0, so the measurement that
\* follows counts no border pixel.
C9_NoSentinelLeft ==
    (fn_args.fn = "border_correction" /\ Len(fn_rets) >= 1
        /\ FramedCanvas(fn_args.img_grey)) =>
        NoSentinel(fn_rets[1])

----------------------------------------------------------------------------
(* generate_objects taken alone: a canvas of a few pixels, grids of one or   *)
(* two pixels, tracks and pore numbers small enough to enumerate.            *)

\* widest and highest canvas, in pixels
MaxImage == 2

GenParameters ==
    {[Parameters EXCEPT !.image_width = iw, !.image_height = ih,
                        !.track_mean_width = w, !.track_mean_height = 4,
                        !.mean_foam_pores_per_track = m,
                        !.variation_of_foam_pores_per_track = v] :
        iw \in 1..MaxImage, ih \in 1..MaxImage, w \in {0, 2},
        m \in {0, 1, 2}, v \in {0, 1}}

GenRatios ==
    {[num |-> -1, den |-> 1], [num |-> 1, den |-> 4], [num |-> 1, den |-> 1],
     [num |-> 5, den |-> 4]}

GenConfigs ==
    {UserConfig(h, r, Porosities(Pct(50), f), "output") :
        h \in {-1, 0, 1, 2}, r \in GenRatios, f \in {Pct(0), Pct(40)}}

InitGen ==
    /\ LoopIdle
    /\ \E p \in GenParameters, c \in GenConfigs :
          fn_args = [fn |-> "generate_objects", parameters |-> p,
                     user_config |-> c]
    /\ fn_rets = <<>>

CallGenerateObjects ==
    /\ fn_args.fn = "generate_objects"
    /\ fn_rets = <<>>
    /\ \E o \in generate_objects(fn_args.parameters, fn_args.user_config) :
          LET after == ArgumentsAfterGenerate(fn_args.parameters,
                                              fn_args.user_config, o)
          IN  /\ fn_rets' = <<o>>
              /\ fn_args' = [fn_args EXCEPT
                                !.parameters = after.parameters,
                                !.user_config = after.user_config]
    /\ UNCHANGED loopVars

SpecGen == InitGen /\ [][CallGenerateObjects]_vars

\* C5: when the desired foam pore porosity is 0, generate_objects hands back
\* an empty list of foam pores, whatever the mean number of pores per track
\* and its variation are.
C5_NoPoresWhenNoneDesired ==
    (fn_args.fn = "generate_objects" /\ fn_rets # <<>>
        /\ fn_args.user_config.desired_porosities.by_foam_pores = 0) =>
        fn_rets[1].foam_pore_objects = <<>>

\* a call that returned several tracks and no pore, for parameters that ask
\* for pores on every track
C5_Witness ==
    /\ fn_args.fn = "generate_objects"
    /\ fn_args.user_config.desired_porosities.by_foam_pores = 0
    /\ fn_args.parameters.mean_foam_pores_per_track = 2
    /\ fn_args.parameters.variation_of_foam_pores_per_track = 1
    /\ fn_rets # <<>>
    /\ fn_rets[1].ended = Returned
    /\ Len(fn_rets[1].track_objects) >= 2
    /\ fn_rets[1].foam_pore_objects = <<>>

\* round(layer_height * layer_width_to_layer_height_ratio) of a UserConfig
LayerWidthOf(user_config_) ==
    RoundHalfEven(user_config_.layer_height
                    * user_config_.layer_width_to_layer_height_ratio.num,
                  user_config_.layer_width_to_layer_height_ratio.den)

\* C11: a call of generate_objects changes no field of the Parameters and of
\* the UserConfig it is given, whether it returns or raises: both objects are
\* after the call what they were before it.
C11_ArgumentsUntouched ==
    [][(fn_args.fn = "generate_objects" /\ fn_rets = <<>> /\ fn_rets' # <<>>)
          => /\ fn_args'.parameters = fn_args.parameters
             /\ fn_args'.user_config = fn_args.user_config]_vars

\* a call that raised randint's error after it had made a track, for
\* Parameters whose variation of the number of pores is 0
C11_Witness ==
    /\ fn_args.fn = "generate_objects"
    /\ fn_rets # <<>>
    /\ fn_rets[1].ended = RandintError
    /\ fn_rets[1].track_objects # <<>>
    /\ fn_args.parameters.variation_of_foam_pores_per_track = 0
    /\ fn_args.user_config.desired_porosities.by_foam_pores # 0

\* C12: generate_objects ends in the layer width or the layer height error,
\* with no track and no pore made, exactly when round(layer_height * ratio)
\* or layer_height is not positive; the layer width error is raised only for
\* a width that is not positive, the layer height error only for a height
\* that is not positive.
C12_InvalidLayerRejected ==
    (fn_args.fn = "generate_objects" /\ fn_rets # <<>>) =>
        LET o == fn_rets[1]
            w == LayerWidthOf(fn_args.user_config)
            h == fn_args.user_config.layer_height
        IN  /\ (o.ended \in {LayerWidthError, LayerHeightError})
                    <=> (w <= 0 \/ h <= 0)
            /\ o.ended = LayerWidthError => w <= 0
            /\ o.ended = LayerHeightError => h <= 0
            /\ o.ended \in {LayerWidthError, LayerHeightError} =>
                    (o.track_objects = <<>> /\ o.foam_pore_objects = <<>>)

\* the layer height error was raised for a layer width that is positive
C12_Witness ==
    /\ fn_args.fn = "generate_objects"
    /\ fn_rets # <<>>
    /\ fn_rets[1].ended = LayerHeightError
    /\ LayerWidthOf(fn_args.user_config) > 0
    /\ fn_args.user_config.layer_height < 0

----------------------------------------------------------------------------
(* adapt_parameters taken alone: calls one after the other on the same       *)
(* Parameters, each with measured porosities of its own.                     *)

\* calls of adapt_parameters followed
MaxAdapt == 2

\* the measured total and foam pore porosity, as distances from the desired
\* ones in hundredths of a percent point
AdaptTotalOffsets ==
    {-1100, -1000, -800, -700, -100, 0, 100, 700, 800, 1000, 1100}
AdaptFoamOffsets == {-400, -300, -250, -200, 0, 200, 250, 300, 400}

AdaptDesired == {Porosities(Pct(50), Pct(0)), Porosities(Pct(50), Pct(40))}

\* a Porosities with all three values of one rendering
Measured(total, by_foam_pores) ==
    [total |-> total, by_foam_pores |-> by_foam_pores,
     by_tracks |-> total - by_foam_pores]

\* The Parameters the calls start from: the defaults, and Parameters whose
\* pores are as small and as few, or as many, as earlier calls can make them
AdaptParameters ==
    {[Parameters EXCEPT !.mean_diameter_of_foam_pores = k[1],
                        !.mean_foam_pores_per_track = k[2],
                        !.variation_of_foam_pores_per_track = k[3]] :
        k \in {<<DefaultMeanDiameter, DefaultMeanFoamPores,
                 DefaultVariationOfFoamPores>>,
               <<DefaultMeanDiameter, AmountCeiling,
                 DefaultVariationOfFoamPores>>,
               <<1, 1, DefaultVariationOfFoamPores>>,
               <<1, 1, 0>>}}

InitAdapt ==
    /\ FnIdle
    /\ pc = "adapting"
    /\ parameters \in AdaptParameters
    /\ \E d \in AdaptDesired :
          user_config = UserConfig(40, [num |-> 5, den |-> 4], d, "output")
    /\ save = FALSE
    /\ actual_porosities = Porosities(0, 0)
    /\ foam_pore_objects = <<>>
    /\ fig = <<>>
    /\ img_grey_sp = <<>>
    /\ saved = <<>>
    /\ result = None
    /\ iteration = 0

CallAdaptParameters ==
    /\ pc = "adapting"
    /\ iteration < MaxAdapt
    /\ \E dt \in AdaptTotalOffsets, df \in AdaptFoamOffsets :
          LET actual == Measured(user_config.desired_porosities.total + dt,
                                 user_config.desired_porosities.by_foam_pores
                                    + df)
          IN  /\ parameters' = adapt_parameters(parameters,
                                                user_config.desired_porosities,
                                                actual)
              /\ actual_porosities' = actual
    /\ iteration' = iteration + 1
    /\ UNCHANGED <<pc, user_config, save, foam_pore_objects, fig, img_grey_sp,
                   saved, result, fnVars>>

SpecAdapt == InitAdapt /\ [][CallAdaptParameters]_vars

\* the call just made was given a total porosity more than 7 points above the
\* desired one and a foam pore porosity of 0, with none desired
OversizedPorosityStep ==
    /\ pc = "adapting"
    /\ iteration' = iteration + 1
    /\ user_config.desired_porosities.by_foam_pores = 0
    /\ actual_porosities'.by_foam_pores = 0
    /\ actual_porosities'.total
          > user_config.desired_porosities.total + Pct(LargeStepGapInMargin)

\* C10 as amended: when the measured total porosity is far above the desired
\* one and the measured and the desired foam pore porosity are 0, one
\* adapt_parameters step strictly increases track_mean_width (by 3) and
\* track_mean_height (by 2): larger tracks leave less dark background.
C10_TracksGrow ==
    [][OversizedPorosityStep =>
          /\ parameters'.track_mean_width = parameters.track_mean_width + 3
          /\ parameters'.track_mean_height = parameters.track_mean_height + 4]_vars

\* C10 as claimed: such a step strictly decreases track_mean_width and
\* track_mean_height.
C10_TracksShrink ==
    [][OversizedPorosityStep =>
          /\ parameters'.track_mean_width < parameters.track_mean_width
          /\ parameters'.track_mean_height < parameters.track_mean_height]_vars

\* the first call, given a total 11 points too high, has enlarged the tracks
C10_Witness ==
    /\ pc = "adapting"
    /\ iteration = 1
    /\ user_config.desired_porosities.by_foam_pores = 0
    /\ actual_porosities.by_foam_pores = 0
    /\ actual_porosities.total = user_config.desired_porosities.total + Pct(11)
    /\ parameters.track_mean_width = DefaultTrackMeanWidth + 3
    /\ parameters.track_mean_height = 2 * DefaultTrackMeanHeight + 4

\* a call of adapt_parameters: parameters are the Parameters before it,
\* parameters' those after it, actual_porosities' what was measured
AdaptStep == pc = "adapting" /\ iteration' = iteration + 1

\* C17: every adapt_parameters call moves track_mean_width by 1 or by 3 and
\* track_mean_height by 0.5 or by 2, both up or both down; the large step is
\* taken exactly when the gap in total porosity exceeds 7 points with the
\* foam pore porosity within its margin, or 10 points with it outside.
C17_TrackSteps ==
    [][AdaptStep =>
          LET desired == user_config.desired_porosities
              gap == Abs(actual_porosities'.total - desired.total)
              in_margin ==
                  porosity_in_margin(desired.by_foam_pores,
                                     actual_porosities'.by_foam_pores,
                                     parameters.porosity_foam_pore_margin)
              large == IF in_margin THEN gap > Pct(LargeStepGapInMargin)
                       ELSE gap > Pct(LargeStepGapOutOfMargin)
              dw == parameters'.track_mean_width - parameters.track_mean_width
              dh == parameters'.track_mean_height
                        - parameters.track_mean_height
          IN  /\ large => (dw \in {-3, 3} /\ dh \in {-4, 4})
              /\ ~large => (dw \in {-1, 1} /\ dh \in {-1, 1})
              /\ (dw > 0) <=> (dh > 0)]_vars

\* C18 as claimed: a foam pore gap above the margin and below the threshold
\* changes the mean diameter by 1 and not the mean number of pores; a gap
\* from the threshold on changes the number by 1 and not the diameter; too
\* much measured lowers, too little raises; a gap within the margin changes
\* neither.
C18_DiameterOrAmountByOne ==
    [][AdaptStep =>
          LET diff == actual_porosities'.by_foam_pores
                        - user_config.desired_porosities.by_foam_pores
              sign == IF diff > 0 THEN -1 ELSE 1
              dd == parameters'.mean_diameter_of_foam_pores
                        - parameters.mean_diameter_of_foam_pores
              dm == parameters'.mean_foam_pores_per_track
                        - parameters.mean_foam_pores_per_track
          IN  IF Abs(diff) <= parameters.porosity_foam_pore_margin
              THEN dd = 0 /\ dm = 0
              ELSE IF Abs(diff) < parameters.foam_pore_amount_adaption_threshold
              THEN dd = sign /\ dm = 0
              ELSE dd = 0 /\ dm = sign]_vars

\* C18 as amended: a gap within the margin changes neither the diameter nor
\* the number of pores.  A gap above the margin with too little measured
\* raises the diameter by 1 when the gap is below the threshold, else the
\* number by 1.  With too much measured it lowers the diameter by 1, not
\* below 1, when the gap is below the threshold and the number is below 10,
\* else the number by 1, not below 1.  Whichever was done, the number is 0
\* after the call when no foam pore porosity is desired.
C18_FoamSteps ==
    [][AdaptStep =>
          LET desired == user_config.desired_porosities
              diff == actual_porosities'.by_foam_pores - desired.by_foam_pores
              d == parameters.mean_diameter_of_foam_pores
              m == parameters.mean_foam_pores_per_track
              adapt_size ==
                  /\ Abs(diff) < parameters.foam_pore_amount_adaption_threshold
                  /\ diff > 0 => m < AmountCeiling
              d_after ==
                  IF Abs(diff) <= parameters.porosity_foam_pore_margin
                        \/ ~adapt_size THEN d
                  ELSE IF diff < 0 THEN d + 1
                  ELSE IF d > 1 THEN d - 1 ELSE 1
              m_after ==
                  IF Abs(diff) <= parameters.porosity_foam_pore_margin
                        \/ adapt_size THEN m
                  ELSE IF diff < 0 THEN m + 1
                  ELSE IF m > 1 THEN m - 1 ELSE 1
          IN  /\ parameters'.mean_diameter_of_foam_pores = d_after
              /\ parameters'.mean_foam_pores_per_track =
                    IF desired.by_foam_pores = 0 THEN 0 ELSE m_after]_vars

\* a first call given a foam pore porosity 2.5 points too high lowered the
\* number of pores from 10 to 9 and left the diameter
C18_Witness ==
    /\ pc = "adapting"
    /\ iteration = 1
    /\ user_config.desired_porosities.by_foam_pores # 0
    /\ actual_porosities.by_foam_pores
          = user_config.desired_porosities.by_foam_pores + 250
    /\ parameters.mean_foam_pores_per_track = AmountCeiling - 1
    /\ parameters.mean_diameter_of_foam_pores = DefaultMeanDiameter

\* C19: with a foam pore porosity desired, and starting from a diameter and
\* a number of pores of at least 1 and a variation of at least 0, after any
\* calls of adapt_parameters the diameter and the number are at least 1 and
\* the variation at least 0; and the variation goes down only in a call that
\* held the number of pores at its floor of 1.
C19_FoamFloors ==
    /\ []((pc = "adapting"
            /\ user_config.desired_porosities.by_foam_pores # 0) =>
            /\ parameters.mean_diameter_of_foam_pores >= 1
            /\ parameters.mean_foam_pores_per_track >= 1
            /\ parameters.variation_of_foam_pores_per_track >= 0)
    /\ [][(AdaptStep /\ user_config.desired_porosities.by_foam_pores # 0
            /\ parameters'.variation_of_foam_pores_per_track
                  < parameters.variation_of_foam_pores_per_track) =>
            /\ parameters.mean_foam_pores_per_track = 1
            /\ parameters'.mean_foam_pores_per_track = 1
            /\ actual_porosities'.by_foam_pores
                  > user_config.desired_porosities.by_foam_pores]_vars

\* two calls with far too much foam pore porosity measured held the number
\* of pores at 1, the diameter at 1, and took the variation from 4 to 2
C19_Witness ==
    /\ pc = "adapting"
    /\ iteration = 2
    /\ user_config.desired_porosities.by_foam_pores # 0
    /\ parameters.mean_diameter_of_foam_pores = 1
    /\ parameters.mean_foam_pores_per_track = 1
    /\ parameters.variation_of_foam_pores_per_track
          = DefaultVariationOfFoamPores - 2

\* C20: when the desired foam pore porosity is 0, mean_foam_pores_per_track
\* is 0 after every adapt_parameters call, whatever was measured and whatever
\* the number was before.
C20_NoPoresDesiredNoPores ==
    (pc = "adapting" /\ iteration >= 1
        /\ user_config.desired_porosities.by_foam_pores = 0) =>
        parameters.mean_foam_pores_per_track = 0

\* a call given a measured foam pore porosity 4 points below the desired 0,
\* which raises the number of pores before it is set to 0
C20_Witness ==
    /\ pc = "adapting"
    /\ iteration = 1
    /\ user_config.desired_porosities.by_foam_pores = 0
    /\ actual_porosities.by_foam_pores = -400
    /\ parameters.mean_foam_pores_per_track = 0

\* C21: after every adapt_parameters call foam_pores_center_scaling_factor
\* is the integer nearest to a third of the track_mean_width that the same
\* call has set (a third of an integer is never half way between two).
C21_ScalingFollowsWidth ==
    (pc = "adapting" /\ iteration >= 1) =>
        /\ parameters.foam_pores_center_scaling_factor.den = 1
        /\ 2 * Abs(3 * parameters.foam_pores_center_scaling_factor.num
                     - parameters.track_mean_width) <= 3

\* a call that took the width from 50 to 53 left a scaling of 18, where a
\* third of 50 rounds to 17
C21_Witness ==
    /\ pc = "adapting"
    /\ iteration = 1
    /\ parameters.track_mean_width = DefaultTrackMeanWidth + 3
    /\ parameters.foam_pores_center_scaling_factor = [num |-> 18, den |-> 1]

(* The branch of adapt_parameters and the acceptance check of             *)
(* generate_image on the same foam pore porosities and margin.              *)

InitAgree ==
    /\ LoopIdle
    /\ \E d \in MarginDesired, m \in MarginValues, o \in MarginOffsets :
          fn_args = [fn |-> "adapt_parameters",
                     self |-> [Parameters EXCEPT
                                 !.porosity_foam_pore_margin = m],
                     desired_porosities |-> Porosities(Pct(50), d),
                     actual_porosities |-> Measured(Pct(50) + d + o, d + o)]
    /\ fn_rets = <<>>

\* The branch adapt_parameters takes at line 222, then what line 66 of
\* generate_image gets from porosity_in_margin for the same values
CallAdaptBranchAndCheck ==
    /\ fn_args.fn = "adapt_parameters"
    /\ fn_rets = <<>>
    /\ fn_rets' =
          <<FoamPorePorosityInMarginBranch(fn_args.self,
                                           fn_args.desired_porosities,
                                           fn_args.actual_porosities),
            porosity_in_margin(fn_args.desired_porosities.by_foam_pores,
                               fn_args.actual_porosities.by_foam_pores,
                               fn_args.self.porosity_foam_pore_margin)>>
    /\ UNCHANGED <<fn_args, loopVars>>

SpecAgree == InitAgree /\ [][CallAdaptBranchAndCheck]_vars

\* C22: adapt_parameters takes its 'foam pore porosity is in margin' branch
\* exactly when porosity_in_margin holds of the desired and the measured foam
\* pore porosity and the foam pore margin, a measured value on a margin bound
\* included.
C22_BranchAgreesWithCheck ==
    (fn_args.fn = "adapt_parameters" /\ fn_rets # <<>>) =>
        fn_rets[1] = fn_rets[2]

----------------------------------------------------------------------------
(* draw_routine.py: generate_image; utils.py: save_files *)

\* What the rasterizer (matplotlib's savefig, cv2's decoding and grey
\* conversion) hands back is not this program's doing: any canvas of dark
\* background and light tracks may come.  The canvas is one row of LoopPix
\* pixels; the black border left by the rasterizer is looked at with
\* border_correction taken alone.
RenderLevels == {DarkGrey, LightGrey}
Renderings == {<<row>> : row \in [1..LoopPix -> RenderLevels]}

\* The same figure rendered again after the foam pores were added to it: a
\* pore darkens the light pixels it covers; without pores nothing changes.
WithPores(raw, pores) ==
    IF pores = <<>> THEN {raw}
    ELSE {<<row>> : row \in
            {r \in [1..LoopPix -> RenderLevels] :
                \A j \in 1..LoopPix : raw[1][j] = DarkGrey => r[j] = DarkGrey}}

\* The mutation of the order of lines 59 and 60: the foam pore porosity is
\* derived before the total is stored, from the total of the iteration before.
WithTotalDerivedFirst(actual, total) ==
    [actual EXCEPT !.by_foam_pores = actual.total - actual.by_tracks,
                   !.total = total]

\* Lines 59-60: the measured total is stored, then by_foam_pores is set to
\* actual_porosities.total - actual_porosities.by_tracks
WithTotal(actual, total) ==
    [actual EXCEPT !.total = total,
                   !.by_foam_pores = total - actual.by_tracks]

\* The mutation of the test of line 70: or for and.
AcceptConditionEither(user_config_, actual, parameters_) ==
    \/ porosity_in_margin(user_config_.desired_porosities.total, actual.total,
                          parameters_.total_porosity_margin)
    \/ porosity_in_margin(user_config_.desired_porosities.by_foam_pores,
                          actual.by_foam_pores,
                          parameters_.porosity_foam_pore_margin)

\* Lines 63-70: porosity_total_in_margin and porosity_foam_pores_in_margin
AcceptCondition(user_config_, actual, parameters_) ==
    /\ porosity_in_margin(user_config_.desired_porosities.total, actual.total,
                          parameters_.total_porosity_margin)
    /\ porosity_in_margin(user_config_.desired_porosities.by_foam_pores,
                          actual.by_foam_pores,
                          parameters_.porosity_foam_pore_margin)

\* The mutation of the test of line 71: the files are saved in any case.
SaveRequestedAlways(save_) == TRUE

\* Line 71: if save
SaveRequested(save_) == save_

\* save_files replaces the function in the parameters by its name ...
NamedFunction(parameters_) ==
    [parameters_ EXCEPT !.porosity_function = Str(@.__name__)]

\* ... and writes the image and the configuration: what it wrote
save_files(img, parameters_, actual, user_config_) ==
    [image |-> img,
     config |-> [user_config |-> user_config_,
                 parameters |-> NamedFunction(parameters_),
                 porosity_results |-> actual]]

\* the canvas of one grid cell the loop is followed on
LoopParameters ==
    {[Parameters EXCEPT !.image_width = 50, !.image_height = 40,
                        !.porosity_function = r] : r \in Rules}

LoopConfigs ==
    {UserConfig(h, [num |-> 5, den |-> 4], Porosities(Pct(50), f), "output") :
        h \in {40, 0}, f \in {Pct(0), Pct(25)}}

\* generate_image(user_config, parameters, save) up to line 22
Init ==
    /\ FnIdle
    /\ pc = "render_tracks"
    /\ parameters \in LoopParameters
    /\ user_config \in LoopConfigs
    /\ save \in BOOLEAN
    /\ actual_porosities = Porosities(0, 0)
    /\ foam_pore_objects = <<>>
    /\ fig = <<>>
    /\ img_grey_sp = <<>>
    /\ saved = <<>>
    /\ result = None
    /\ iteration = 0

\* Lines 27-45: the objects are generated, the tracks drawn and rendered, the
\* border corrected and the porosity of the tracks measured.  An exception of
\* generate_objects ends the call.
RenderTracks ==
    /\ pc = "render_tracks"
    /\ iteration < MaxIter
    /\ \E o \in generate_objects(parameters, user_config) :
          IF o.ended # Returned
          THEN /\ pc' = "raised"
               /\ result' = o.ended
               /\ UNCHANGED <<actual_porosities, foam_pore_objects, fig,
                              iteration>>
          ELSE \E raw \in Renderings :
                  /\ fig' = raw
                  /\ actual_porosities' =
                        [actual_porosities EXCEPT !.by_tracks =
                            ApplyRule(parameters.porosity_function,
                                      Flatten(border_correction(raw)))]
                  /\ foam_pore_objects' = o.foam_pore_objects
                  /\ iteration' = iteration + 1
                  /\ pc' = "render_pores"
                  /\ UNCHANGED result
    /\ UNCHANGED <<parameters, user_config, save, img_grey_sp, saved, fnVars>>

\* Lines 48-60: the pores are added, the figure rendered again, the border
\* corrected, the total porosity measured and the foam pore porosity derived.
\* The list of pores is not read again.
RenderPores ==
    /\ pc = "render_pores"
    /\ \E raw \in WithPores(fig, foam_pore_objects) :
          LET corrected == border_correction(raw)
              total == ApplyRule(parameters.porosity_function,
                                 Flatten(corrected))
          IN  /\ fig' = raw
              /\ img_grey_sp' = corrected
              /\ actual_porosities' = WithTotal(actual_porosities, total)
    /\ foam_pore_objects' = <<>>
    /\ pc' = "check"
    /\ UNCHANGED <<parameters, user_config, save, saved, result, iteration,
                   fnVars>>

\* Lines 70-73: both porosities are in their margins; the files are saved if
\* asked for and the Porosities object is returned.
Accept ==
    /\ pc = "check"
    /\ AcceptCondition(user_config, actual_porosities, parameters)
    /\ IF SaveRequested(save)
       THEN /\ saved' = Append(saved, save_files(img_grey_sp, parameters,
                                                 actual_porosities, user_config))
            /\ parameters' = NamedFunction(parameters)
       ELSE UNCHANGED <<saved, parameters>>
    /\ result' = actual_porosities
    /\ pc' = "done"
    /\ UNCHANGED <<user_config, save, actual_porosities, foam_pore_objects,
                   fig, img_grey_sp, iteration, fnVars>>

\* Lines 75-84: the figure is closed and deleted and the parameters adapted
Adapt ==
    /\ pc = "check"
    /\ ~AcceptCondition(user_config, actual_porosities, parameters)
    /\ fig' = <<>>
    /\ parameters' = adapt_parameters(parameters,
                                      user_config.desired_porosities,
                                      actual_porosities)
    /\ pc' = "render_tracks"
    /\ UNCHANGED <<user_config, save, actual_porosities, foam_pore_objects,
                   img_grey_sp, saved, result, iteration, fnVars>>

Next == RenderTracks \/ RenderPores \/ Accept \/ Adapt

Spec == Init /\ [][Next]_vars

----------------------------------------------------------------------------
(* Claims about generate_image *)

\* both measured porosities are at most their margin away from the desired
InMargins(actual) ==
    /\ Abs(actual.total - user_config.desired_porosities.total)
          <= parameters.total_porosity_margin
    /\ Abs(actual.by_foam_pores - user_config.desired_porosities.by_foam_pores)
          <= parameters.porosity_foam_pore_margin

\* the parameters but for the measurement rule, which save_files renames
Knobs(parameters_) == [parameters_ EXCEPT !.porosity_function = "any"]

\* C1: generate_image returns a Porosities only from an iteration whose
\* measured total and foam pore porosity (the total being the one measured on
\* that iteration's buffer) are both within their margins of the desired
\* ones, and every iteration in which both are within their margins returns
\* them without adapting the parameters.
C1_AcceptIffInMargins ==
    [][/\ (pc = "check" /\ InMargins(actual_porosities)) =>
              /\ pc' = "done"
              /\ result' = actual_porosities
              /\ Knobs(parameters') = Knobs(parameters)
       /\ (pc # "done" /\ pc' = "done") =>
              /\ pc = "check"
              /\ InMargins(actual_porosities)
              /\ actual_porosities.total =
                    ApplyRule(parameters.porosity_function, Flatten(img_grey_sp))
              /\ result' = actual_porosities]_vars

\* a call that returned in its second iteration, after one adaptation
C1_Witness ==
    /\ pc = "done"
    /\ iteration = 2
    /\ result = actual_porosities
    /\ result.total = Pct(50)
    /\ Knobs(parameters) # Knobs(Parameters)

\* C2: in every result generate_image returns, by_foam_pores is total minus
\* by_tracks, the three being the values of the accepted iteration.
C2_FoamIsTotalMinusTracks ==
    pc = "done" =>
        /\ result = actual_porosities
        /\ result.by_foam_pores = result.total - result.by_tracks

\* a returned result with foam pores: a total of 50, 25 of it by the tracks
C2_Witness ==
    /\ pc = "done"
    /\ result.total = Pct(50)
    /\ result.by_tracks = Pct(25)
    /\ result.by_foam_pores = Pct(25)

\* the rule whose name save_files wrote into the parameters
RuleNamed(name) == CHOOSE r \in Rules : r.__name__ = name

\* C4: within one call of generate_image save_files runs at most once, only
\* when the call accepts and only when save is asked for, and it is handed the
\* buffer and the Porosities of the accepting iteration; nothing is saved
\* while the call is rejecting iterations.
C4_SavedOnceOnAccept ==
    /\ Len(saved) <= 1
    /\ saved # <<>> =>
          /\ pc = "done"
          /\ save
          /\ saved[1].image = img_grey_sp
          /\ saved[1].config.porosity_results = result
          /\ InMargins(saved[1].config.porosity_results)
          /\ saved[1].config.porosity_results.total =
                ApplyRule(
                    RuleNamed(saved[1].config.parameters.porosity_function.str),
                    Flatten(saved[1].image))

\* a call that rejected its first iteration and saved its second
C4_Witness ==
    /\ pc = "done"
    /\ save
    /\ iteration = 2
    /\ Len(saved) = 1
    /\ saved[1].image = img_grey_sp
    /\ saved[1].config.porosity_results = result

----------------------------------------------------------------------------
(* parameters.py: Parameters.load_from_file, taken alone and after           *)
(* save_files.                                                               *)

\* What print_red_terminal_message prints for a rule name it does not know
UnsupportedFunctionMessage ==
    "The given porosity function is not supported in this loading process"

\* The names the if / elif of lines 171-174 compare with, and the names of
\* the files the loading is followed on
MeanRuleName == "calculate_porosity_w_mean"
MedianRuleName == "calculate_porosity_w_median"
RuleNames ==
    {MeanRuleName, MedianRuleName, "calculate_porosity_w_median_plus_1",
     "calculate_porosity_w_mode"}

\* Lines 171-176: params.porosity_function after the if / elif / else; the
\* else branch prints and leaves the default of the dataclass
LoadedFunction(params, parameter_file) ==
    IF parameter_file.porosity_function.str = MeanRuleName THEN MeanRule
    ELSE IF parameter_file.porosity_function.str = MedianRuleName
    THEN MedianRule
    ELSE params.porosity_function

\* What the call printed in red
LoadPrinted(parameter_file) ==
    IF parameter_file.porosity_function.str \in {MeanRuleName, MedianRuleName}
    THEN <<>>
    ELSE <<UnsupportedFunctionMessage>>

\* Parameters.load_from_file for a file whose 'parameters' object holds every
\* key: a Parameters of defaults, every field then set from the file
Parameters_load_from_file(parameter_file) ==
    LET params == Parameters
    IN  [ended |-> Returned,
         printed |-> LoadPrinted(parameter_file),
         params |->
            [params EXCEPT
                !.porosity_function = LoadedFunction(params, parameter_file),
                !.image_width = parameter_file.image_width,
                !.image_height = parameter_file.image_height,
                !.total_porosity_margin = parameter_file.total_porosity_margin,
                !.porosity_foam_pore_margin =
                    parameter_file.porosity_foam_pore_margin,
                !.foam_pore_amount_adaption_threshold =
                    parameter_file.foam_pore_amount_adaption_threshold,
                !.track_mean_width = parameter_file.track_mean_width,
                !.track_mean_height = parameter_file.track_mean_height,
                !.foam_pores_center_scaling_factor =
                    parameter_file.foam_pores_center_scaling_factor,
                !.mean_diameter_of_foam_pores =
                    parameter_file.mean_diameter_of_foam_pores,
                !.mean_foam_pores_per_track =
                    parameter_file.mean_foam_pores_per_track,
                !.variation_of_foam_pores_per_track =
                    parameter_file.variation_of_foam_pores_per_track]]

\* Parameters as generate_image leaves them: either rule, tracks and pores
\* adapted a few steps
FinalParameters ==
    {[Parameters EXCEPT !.porosity_function = r,
                        !.track_mean_width = w,
                        !.track_mean_height = 2 * h,
                        !.foam_pores_center_scaling_factor =
                            [num |-> RoundHalfEven(w, 3), den |-> 1],
                        !.mean_diameter_of_foam_pores = d,
                        !.mean_foam_pores_per_track = m] :
        r \in Rules, w \in {47, 50, 53}, h \in {38, 40, 42}, d \in {4, 5, 6},
        m \in {0, 7, 8}}

\* 'parameters' objects of configuration files, written by hand or by an
\* earlier run
ParameterFiles ==
    {[p EXCEPT !.porosity_function = Str(n)] :
        p \in {q \in FinalParameters : q.porosity_function = MeanRule},
        n \in RuleNames}

InitLoad ==
    /\ LoopIdle
    /\ fn_rets = <<>>
    /\ \/ \E f \in ParameterFiles :
             fn_args = [fn |-> "Parameters.load_from_file",
                        parameter_file |-> f]
       \/ \E p \in FinalParameters, t \in {Pct(49), Pct(51)} :
             fn_args = [fn |-> "save_files",
                        img_grey_sp |-> <<<<DarkGrey, LightGrey>>>>,
                        parameters |-> p,
                        actual_porosities |-> Measured(t, 0),
                        user_config |->
                            UserConfig(40, [num |-> 5, den |-> 4],
                                       Porosities(Pct(50), 0), "output")]

CallParametersLoad ==
    /\ fn_args.fn = "Parameters.load_from_file"
    /\ fn_rets = <<>>
    /\ fn_rets' = <<Parameters_load_from_file(fn_args.parameter_file)>>
    /\ UNCHANGED <<fn_args, loopVars>>

\* save_files: the document is written and the Parameters it was given hold
\* the name of their function from then on
CallSaveFiles ==
    /\ fn_args.fn = "save_files"
    /\ fn_rets = <<>>
    /\ fn_rets' = <<save_files(fn_args.img_grey_sp, fn_args.parameters,
                               fn_args.actual_porosities, fn_args.user_config)>>
    /\ fn_args' = [fn_args EXCEPT !.parameters = NamedFunction(@)]
    /\ UNCHANGED loopVars

\* Parameters.load_from_file on the configuration save_files wrote
CallLoadSaved ==
    /\ fn_args.fn = "save_files"
    /\ Len(fn_rets) = 1
    /\ fn_rets' = Append(fn_rets,
                         Parameters_load_from_file(fn_rets[1].config.parameters))
    /\ UNCHANGED <<fn_args, loopVars>>

SpecLoad ==
    InitLoad /\ [][CallParametersLoad \/ CallSaveFiles \/ CallLoadSaved]_vars

\* C13: loading Parameters from a configuration whose rule name is none of
\* the names the loader knows reports it and aborts: the call does not return
\* a Parameters object.
C13_UnknownRuleAborts ==
    (fn_args.fn = "Parameters.load_from_file" /\ fn_rets # <<>>
        /\ fn_args.parameter_file.porosity_function.str
              \notin {MeanRuleName, MedianRuleName}) =>
        /\ fn_rets[1].printed # <<>>
        /\ fn_rets[1].ended # Returned

\* C15: the rule of the Parameters handed to save_files is the rule of the
\* Parameters loaded from the configuration save_files wrote.
C15_RuleSurvivesSaveAndLoad ==
    (fn_args.fn = "save_files" /\ Len(fn_rets) = 2) =>
        /\ fn_rets[2].ended = Returned
        /\ fn_rets[2].printed = <<>>
        /\ Function(fn_rets[1].config.parameters.porosity_function.str)
              = fn_rets[2].params.porosity_function

----------------------------------------------------------------------------
(* user_config.py: the construction of a UserConfig and                      *)
(* UserConfig.load_from_file, taken alone.                                   *)

FileNotFoundError == "FileNotFoundError"
NotADirectoryError == "NotADirectoryError"
RuntimeError == "RuntimeError"

needed_params ==
    {"layer_height", "layer_width_to_layer_height_ratio", "output_folder",
     "desired_porosities"}
needed_porosity_params == {"total", "by_foam_pores"}

\* A call that raised: there is no UserConfig
Raised(error) == [ended |-> error, user_config |-> None]

\* UserConfig.load_from_file(filename, output_directory).  file tells what is
\* at filename: whether it is a file, its suffix and the JSON in it;
\* output_directory is a path and whether a directory is there, its path is
\* None when the argument is not given.  Line 76 tests
\* (not output_directory[-1] == '/') or '\\', which is true for every
\* directory name: a backslash is appended always.
UserConfig_load_from_file(file, output_directory) ==
    IF ~file.is_file \/ file.suffix # ".json" THEN Raised(FileNotFoundError)
    ELSE IF output_directory.path # None /\ ~output_directory.is_dir
    THEN Raised(NotADirectoryError)
    ELSE IF "user_config" \notin DOMAIN file.json THEN Raised(RuntimeError)
    ELSE LET user_config_dict == file.json.user_config
         IN  IF \E param \in needed_params :
                    param \notin DOMAIN user_config_dict
             THEN Raised(RuntimeError)
             ELSE IF \E p_param \in needed_porosity_params :
                        p_param \notin DOMAIN user_config_dict.desired_porosities
             THEN Raised(RuntimeError)
             ELSE [ended |-> Returned,
                   user_config |->
                      UserConfig(
                          user_config_dict.layer_height,
                          user_config_dict.layer_width_to_layer_height_ratio,
                          Porosities(
                              user_config_dict.desired_porosities.total,
                              user_config_dict.desired_porosities.by_foam_pores),
                          (IF output_directory.path = None
                           THEN user_config_dict.output_folder
                           ELSE output_directory.path) \o "\\")]

\* The layer heights, ratios and desired porosities the construction is
\* followed on
ConfigHeights == {-1, 0, 1, 2, 40}
ConfigPorosities ==
    {[total |-> Pct(50), by_foam_pores |-> f] : f \in {Pct(0), Pct(25)}}

\* The 'user_config' objects of configuration files that hold every key
UserConfigDicts ==
    {[layer_height |-> h, layer_width_to_layer_height_ratio |-> r,
      output_folder |-> "out/", desired_porosities |-> p] :
        h \in ConfigHeights, r \in GenRatios, p \in ConfigPorosities}

\* f without its key k
Without(f, k) == [x \in DOMAIN f \ {k} |-> f[x]]

\* What the file can hold: every key, one key too few, or no 'user_config'
ConfigJsons ==
    {[user_config |-> d, parameters |-> NamedFunction(Parameters)] :
        d \in UserConfigDicts}
    \cup {[user_config |-> Without(d, k),
           parameters |-> NamedFunction(Parameters)] :
            d \in {e \in UserConfigDicts : e.layer_height = 40},
            k \in needed_params}
    \cup {[user_config |->
              [d EXCEPT !.desired_porosities = Without(@, k)],
           parameters |-> NamedFunction(Parameters)] :
            d \in {e \in UserConfigDicts : e.layer_height = 40},
            k \in needed_porosity_params}
    \cup {[parameters |-> NamedFunction(Parameters)]}

ConfigFiles ==
    {[is_file |-> TRUE, suffix |-> ".json", json |-> j] : j \in ConfigJsons}
    \cup {[is_file |-> e, suffix |-> s,
           json |-> [parameters |-> NamedFunction(Parameters)]] :
            e \in BOOLEAN, s \in {".json", ".txt"}}

OutputDirectories ==
    {[path |-> None, is_dir |-> FALSE], [path |-> "output", is_dir |-> TRUE],
     [path |-> "nowhere", is_dir |-> FALSE]}

InitConfig ==
    /\ LoopIdle
    /\ fn_rets = <<>>
    /\ \/ \E f \in ConfigFiles, o \in OutputDirectories :
             fn_args = [fn |-> "UserConfig.load_from_file", file |-> f,
                        output_directory |-> o]
       \/ \E h \in ConfigHeights, r \in GenRatios, p \in ConfigPorosities :
             fn_args = [fn |-> "UserConfig", layer_height |-> h,
                        layer_width_to_layer_height_ratio |-> r,
                        desired_porosities |->
                            Porosities(p.total, p.by_foam_pores),
                        output_folder |-> "out/"]

CallUserConfigLoad ==
    /\ fn_args.fn = "UserConfig.load_from_file"
    /\ fn_rets = <<>>
    /\ fn_rets' = <<UserConfig_load_from_file(fn_args.file,
                                              fn_args.output_directory)>>
    /\ UNCHANGED <<fn_args, loopVars>>

\* UserConfig(...): the dataclass has no __post_init__, the fields are stored
CallUserConfig ==
    /\ fn_args.fn = "UserConfig"
    /\ fn_rets = <<>>
    /\ fn_rets' = <<[ended |-> Returned,
                     user_config |->
                        UserConfig(fn_args.layer_height,
                                   fn_args.layer_width_to_layer_height_ratio,
                                   fn_args.desired_porosities,
                                   fn_args.output_folder)]>>
    /\ UNCHANGED <<fn_args, loopVars>>

SpecConfig == InitConfig /\ [][CallUserConfigLoad \/ CallUserConfig]_vars

\* C14: every UserConfig that the constructor or load_from_file hands back
\* has a layer height above 0 and a layer width, round(layer_height * ratio),
\* above 0: other values are rejected.
C14_NoInvalidUserConfig ==
    (fn_args.fn \in {"UserConfig", "UserConfig.load_from_file"}
        /\ fn_rets # <<>> /\ fn_rets[1].ended = Returned) =>
        /\ fn_rets[1].user_config.layer_height > 0
        /\ LayerWidthOf(fn_rets[1].user_config) > 0

\* C16: in every iteration the measured total is at least the porosity
\* measured on the tracks alone, so that the derived foam pore porosity lies
\* between 0 and 100.
C16_FoamPorosityInRange ==
    (pc \in {"check", "done"}) =>
        /\ actual_porosities.total >= actual_porosities.by_tracks
        /\ actual_porosities.by_foam_pores >= 0
        /\ actual_porosities.by_foam_pores <= Pct(100)

----------------------------------------------------------------------------
(* generate_image followed over many rejected iterations, from the default   *)
(* Parameters on a canvas of one grid cell.  The two renderings and their    *)
(* measurement are taken together: what was measured is drawn directly.      *)

\* loop iterations followed
MaxRejected == 18

\* what an iteration measures, as distances from the desired porosities in
\* hundredths of a percent point
LongTotalOffsets == {-1100, 0}
LongFoamOffsets == {0, 400}

InitLong ==
    /\ FnIdle
    /\ pc = "render_tracks"
    /\ parameters = [Parameters EXCEPT !.image_width = 50, !.image_height = 40]
    /\ user_config = UserConfig(40, [num |-> 5, den |-> 4],
                                Porosities(Pct(50), Pct(25)), "output")
    /\ save = FALSE
    /\ actual_porosities = Porosities(0, 0)
    /\ foam_pore_objects = <<>>
    /\ fig = <<>>
    /\ img_grey_sp = <<>>
    /\ saved = <<>>
    /\ result = None
    /\ iteration = 0

\* Lines 27-60: the objects are generated, an exception of generate_objects
\* ending the call; the figure is rendered twice and measured.
RenderAndMeasure ==
    /\ pc = "render_tracks"
    /\ iteration < MaxRejected
    /\ \E o \in generate_objects(parameters, user_config) :
          IF o.ended # Returned
          THEN /\ pc' = "raised"
               /\ result' = o.ended
               /\ UNCHANGED <<actual_porosities, iteration>>
          ELSE \E dt \in LongTotalOffsets, df \in LongFoamOffsets :
                  /\ actual_porosities' =
                        Measured(user_config.desired_porosities.total + dt,
                                 user_config.desired_porosities.by_foam_pores
                                    + df)
                  /\ iteration' = iteration + 1
                  /\ pc' = "check"
                  /\ UNCHANGED result
    /\ UNCHANGED <<parameters, user_config, save, foam_pore_objects, fig,
                   img_grey_sp, saved, fnVars>>

SpecLong == InitLong /\ [][RenderAndMeasure \/ Accept \/ Adapt]_vars

\* C23: in every state the loop reaches from the default Parameters with a
\* foam pore porosity desired, variation_of_foam_pores_per_track is above 0
\* and the numbers of pores generate_objects draws from are not none.
C23_PoreCountCanBeDrawn ==
    /\ parameters.variation_of_foam_pores_per_track > 0
    /\ PoreCounts(parameters) # {}

\* C24: after any rejected iterations track_mean_width and track_mean_height
\* are above 0.
C24_TracksStayPositive ==
    /\ parameters.track_mean_width > 0
    /\ parameters.track_mean_height > 0

----------------------------------------------------------------------------
(* The Parameters object after a run of generate_image *)

\* C25: no step of a run of generate_image changes
\* parameters.porosity_function, and when the run has accepted, with or
\* without saving, it is still one of the measurement rules, a callable, so
\* that the same Parameters can be handed to a following run.
C25_RuleKeptThroughRun ==
    [][/\ parameters'.porosity_function = parameters.porosity_function
       /\ pc' = "done" => parameters'.porosity_function \in Rules]_vars

====
